---- MODULE Spec2Model ----
(***************************************************************************)
(* A model of pendant's AWS Batch job handle (pendant/aws/batch.py), its   *)
(* submit-job response wrapper (pendant/aws/response.py), the CloudWatch   *)
(* log tail (pendant/aws/logs.py, pendant/util.py) and the S3 locator      *)
(* (pendant/aws/s3.py).                                                    *)
(*                                                                         *)
(* Python values are modelled as follows: a dict is a function whose       *)
(* domain is its set of keys, a list is a sequence, None is the string     *)
(* "None" where the other values are strings, and an Optional object is a  *)
(* sequence of length at most one (<<>> is None, <<x>> is x).              *)
(***************************************************************************)
EXTENDS Integers, Sequences, FiniteSets, TLC

VARIABLES
    precondition_met,    \* what definition.validate() checks, owned by the environment
    constructed,         \* a BatchJob instance exists
    is_submitted,        \* BatchJob._is_submitted
    container_overrides, \* BatchJob._container_overrides
    job_id,              \* BatchJob._job_id
    queue,               \* BatchJob._queue
    submit_response,     \* BatchJob._submit_response
    remote_jobs,         \* the 'jobs' list the Batch service holds for a describe of this job
    calls,               \* remote calls issued so far, per API
    validate_calls,      \* calls of definition.validate() so far
    result,              \* outcome of the last operation called on the handle
    \* one generator made by AwsLogUtil.yield_log_events
    tail_pc,             \* where the generator is: none, new, fetch, loop, suspended, done
    timeout,             \* its timeout argument: <<>> is None, <<n>> is n seconds
    start_arg,           \* its start_time argument
    start_time,          \* its local start_time, the cursor sent with the next fetch
    events,              \* its local events, the page being emitted
    idx,                 \* how many events of that page the for loop has yielded
    alarm,               \* seconds until SIGALRM is delivered, 0 when no alarm is pending
    requests,            \* startTime of every GetLogEvents call issued, in order
    pages,               \* raw 'events' of every GetLogEvents reply received, in order
    emitted,             \* every LogEvent yielded to the consumer, in order
    tail_error,          \* the exception that ended the generator, or None
    \* one SubmitJobResponse built from a reply, and what its methods returned
    reply_arg,           \* the reply given to SubmitJobResponse(...)
    response_obj,        \* the SubmitJobResponse: <<>> before the call, <<r>> after
    http,                \* what http_code() returned: <<>> before the call, <<n>> after
    ok,                  \* what is_ok() returned: <<>> before the call, <<b>> after
    \* one S3Uri construction
    path_arg,            \* the path given to S3Uri(...), a sequence of characters
    uri,                 \* the S3Uri: <<>> while there is none, <<u>> once constructed
    uri_error,           \* the exception the construction raised, or None
    \* one operation on that S3Uri
    uri_call,            \* the operator or method called on it and its operand
    derived,             \* the S3Uri the call returned: <<>> while none, <<u>> after
    derived_error,       \* the exception the call raised, or None
    bucket_out,          \* what the bucket property returned: <<>> before, <<b>> after
    key_out,             \* what the key property returned: <<>> before, <<k>> after
    head,                \* the object asked for by object_exists() and the remote's answer
    exists_out,          \* what object_exists() returned: <<>> before, <<b>> after
    exists_error,        \* the exception object_exists() raised, or None
    \* one wait_until(statement, call_rate)
    wait_pc,             \* where it is: none, polling (in its loop), returned
    call_rate,           \* its call_rate argument: <<>> is None, <<n>> is n seconds
    answers,             \* what each call of statement() returned, in order
    slept,               \* seconds it has slept in all
    \* the process globals awscli works on, and one awscli(command)
    environ,             \* os.environ, a mapping of names to values
    sys_stdout,          \* the object sys.stdout is bound to
    sys_stderr,          \* the object sys.stderr is bound to
    cli_result,          \* outcome of the awscli call
    \* two generators of yield_log_events in one process
    gens,                \* of each: where it is, its timeout, the exception that ended it
    sigalrm              \* seconds until the process gets SIGALRM, 0 when no alarm is set

jobVars == <<precondition_met, constructed, is_submitted, container_overrides, job_id,
             queue, submit_response, remote_jobs, calls, validate_calls, result>>

fields == <<is_submitted, container_overrides, job_id, queue, submit_response>>

tailVars == <<tail_pc, timeout, start_arg, start_time, events, idx, alarm, requests,
              pages, emitted, tail_error>>

responseVars == <<reply_arg, response_obj, http, ok>>

uriOps == <<uri_call, derived, derived_error, bucket_out, key_out, head, exists_out,
            exists_error>>

uriVars == <<path_arg, uri, uri_error, uriOps>>

waitVars == <<wait_pc, call_rate, answers, slept>>

cliVars == <<environ, sys_stdout, sys_stderr, cli_result>>

processVars == <<gens, sigalrm>>

otherVars == <<waitVars, cliVars, processVars>>

valueVars == <<responseVars, uriVars, otherVars>>

vars == <<jobVars, tailVars, valueVars>>

----------------------------------------------------------------------------
\* Bounds of the model.

MaxCalls == 3
MaxConstructions == 2
MaxTs == 1
MaxPageLen == 2
MaxTimeout == 2
MaxPathLen == 6
MaxRestLen == 4
MaxSegmentLen == 1

----------------------------------------------------------------------------
\* Python helpers.

None == "None"

\* dict.get(key, default)
Get(d, k, default) == IF k \in DOMAIN d THEN d[k] ELSE default

\* truth value of a dict or list
Truthy(d) == DOMAIN d # {}

----------------------------------------------------------------------------
\* Program constants.

BATCH_STATUS_RUNNABLE == "RUNNABLE"
BATCH_STATUS_RUNNING == "RUNNING"
BATCH_STATUS_NOTFOUND == "NOTFOUND"
HTTP_OK == 200
HTTP_DEFAULT == 500

----------------------------------------------------------------------------
\* Inputs and remote replies.

Queues == {"q1"}
JobIds == {"j1", "j2"}
Reasons == {"why"}

\* the container_overrides argument of submit: None or a non-empty mapping
OverrideArgs == {<<>>, << ("vcpus" :> 2) >>}

\* ResponseMetadata of a reply: absent, empty, or carrying a status code
MetaShapes == {"absent", "empty", "200", "500"}

MakeReply(m, j) ==
    (IF m = "absent" THEN <<>>
     ELSE "ResponseMetadata" :>
            (IF m = "empty" THEN <<>>
             ELSE "HTTPStatusCode" :> (IF m = "200" THEN 200 ELSE 500)))
    @@ (IF j = None THEN <<>> ELSE ("jobId" :> j) @@ ("jobName" :> "job-name"))

\* SubmitJob replies: accepted with either id, accepted without an id,
\* refused, with metadata that has no status code, and without metadata
SubmitReplies ==
    {MakeReply("200", "j1"), MakeReply("200", "j2"), MakeReply("200", None),
     MakeReply("500", None), MakeReply("empty", "j1"), MakeReply("absent", None)}

\* a remote call either raises (transport or client error) or returns a reply
RemoteRaises == [raises |-> TRUE, reply |-> <<>>]
Returns(r) == [raises |-> FALSE, reply |-> r]

SubmitOutcomes == {RemoteRaises} \cup {Returns(r) : r \in SubmitReplies}

\* job records of a DescribeJobs reply: 'status' and 'container' are optional
MakeJob(s, c) ==
    (IF s = None THEN <<>> ELSE "status" :> s)
    @@ (IF c = "absent" THEN <<>>
        ELSE "container" :> (IF c = "empty" THEN <<>> ELSE "logStreamName" :> "stream-1"))

JobRecords ==
    {MakeJob(None, "absent"), MakeJob(BATCH_STATUS_RUNNABLE, "absent"),
     MakeJob(BATCH_STATUS_RUNNING, "empty"), MakeJob(BATCH_STATUS_RUNNING, "stream")}

\* the 'jobs' list of a DescribeJobs reply: no record at all, or one record
JobLists == {<<>>} \cup {<<r>> : r \in JobRecords}

----------------------------------------------------------------------------
\* SubmitJobResponse (pendant/aws/response.py).

SubmitJobResponse(response) ==
    [response |-> response,
     metadata |-> Get(response, "ResponseMetadata", <<>>),
     job_name |-> Get(response, "jobName", None),
     job_id   |-> Get(response, "jobId", None)]

\* http_code() taking a reply without a status code for a success
http_code_default_ok(r) == Get(r.metadata, "HTTPStatusCode", HTTP_OK)

\* SubmitJobResponse.http_code()
http_code(r) == Get(r.metadata, "HTTPStatusCode", HTTP_DEFAULT)

\* SubmitJobResponse.is_ok()
is_ok(r) == http_code(r) = HTTP_OK

----------------------------------------------------------------------------
\* CloudWatch log events and the get-log-events response (pendant/aws/logs.py).

REQUEST_SLEEP_TIME == 1

Messages == {"a", "b"}

\* raw records of a GetLogEvents reply
RawEvents ==
    {[timestamp |-> t, message |-> m, ingestionTime |-> t + 1] :
        t \in 0..MaxTs, m \in Messages}

RawPages == UNION {[1..n -> RawEvents] : n \in 0..MaxPageLen}

\* GetLogEvents replies: with an 'events' list, or without the key
LogReplies == {<<>>} \cup {"events" :> p : p \in RawPages}

LogOutcomes == {RemoteRaises} \cup {Returns(r) : r \in LogReplies}

\* LogEvent(record)
LogEvent(record) ==
    [timestamp |-> record["timestamp"],
     message |-> record["message"],
     ingestion_time |-> record["ingestionTime"]]

\* AwsResponse defines no __init__, so `super().__init__(response)` is
\* object.__init__ called with an argument from a class that overrides
\* __init__: it raises TypeError whenever an argument is passed.
AwsResponseInit(args) == IF Len(args) > 0 THEN "TypeError" ELSE None

\* GetLogEventsResponse(response): the error raised by the constructor, or
\* the fields it sets
GetLogEventsResponse(response) ==
    LET super == AwsResponseInit(<<response>>) IN
    IF super # None
    THEN [raises |-> TRUE, error |-> super, events |-> <<>>,
          next_forward_token |-> None, next_backward_token |-> None]
    ELSE [raises |-> FALSE, error |-> None,
          events |-> [i \in 1..Len(Get(response, "events", <<>>)) |->
                        LogEvent(Get(response, "events", <<>>)[i])],
          next_forward_token |-> Get(response, "nextForwardToken", None),
          next_backward_token |-> Get(response, "nextBackwardToken", None)]

\* AwsLogUtil.get_log_events: wraps the reply and returns its events
get_log_events(reply) ==
    LET response == GetLogEventsResponse(reply) IN
    [raises |-> response.raises, error |-> response.error, events |-> response.events]

----------------------------------------------------------------------------
\* Outcomes of an operation, as the caller sees them: the value returned or
\* the error raised (with what it carries), and whether the error came from
\* the operation's submission-state guard.  `sent` is the jobId argument of
\* the remote call the operation made, <<>> when it sent none.
NoResult ==
    [op |-> "none", outcome |-> "none", error |-> None, value |-> <<>>, guard |-> FALSE,
     sent |-> <<>>]
Return(op, v) ==
    [op |-> op, outcome |-> "return", error |-> None, value |-> <<v>>, guard |-> FALSE,
     sent |-> <<>>]
Raise(op, e, v) ==
    [op |-> op, outcome |-> "raise", error |-> e, value |-> <<v>>, guard |-> FALSE,
     sent |-> <<>>]
GuardRaise(op, e) ==
    [op |-> op, outcome |-> "raise", error |-> e, value |-> <<None>>, guard |-> TRUE,
     sent |-> <<>>]

\* the outcome of an operation whose remote call carried jobId=j
Sending(res, j) == [res EXCEPT !.sent = <<j>>]

TotalCalls == calls.submit_job + calls.describe_jobs + calls.cancel_job
              + calls.terminate_job + calls.get_log_events

Called(api) == [calls EXCEPT ![api] = @ + 1]

----------------------------------------------------------------------------
InitHandle ==
    /\ precondition_met = FALSE
    /\ constructed = FALSE
    /\ is_submitted = FALSE
    /\ container_overrides = <<>>
    /\ job_id = None
    /\ queue = None
    /\ submit_response = <<>>
    /\ remote_jobs = <<>>
    /\ calls = [submit_job |-> 0, describe_jobs |-> 0, cancel_job |-> 0,
                terminate_job |-> 0, get_log_events |-> 0]
    /\ validate_calls = 0
    /\ result = NoResult

InitTail ==
    /\ tail_pc = "none"
    /\ timeout = <<>>
    /\ start_arg = 0
    /\ start_time = 0
    /\ events = <<>>
    /\ idx = 0
    /\ alarm = 0
    /\ requests = <<>>
    /\ pages = <<>>
    /\ emitted = <<>>
    /\ tail_error = None

\* no SubmitJobResponse has been built of the reply r
InitResponse(r) ==
    /\ reply_arg = r
    /\ response_obj = <<>>
    /\ http = <<>>
    /\ ok = <<>>

\* no S3Uri has been constructed of the path p
InitUri(p) ==
    /\ path_arg = p
    /\ uri = <<>>
    /\ uri_error = None
    /\ uri_call = [op |-> "none", other |-> [str |-> FALSE, chars |-> <<>>]]
    /\ derived = <<>>
    /\ derived_error = None
    /\ bucket_out = <<>>
    /\ key_out = <<>>
    /\ head = [bucket |-> <<>>, key |-> <<>>, outcome |-> [kind |-> "none", code |-> None]]
    /\ exists_out = <<>>
    /\ exists_error = None

\* no wait_until has been called
InitWait ==
    /\ wait_pc = "none"
    /\ call_rate = <<>>
    /\ answers = <<>>
    /\ slept = 0

\* the process globals, and no awscli call made
InitCli(env) ==
    /\ environ = env
    /\ sys_stdout = "stdout"
    /\ sys_stderr = "stderr"
    /\ cli_result = [outcome |-> "none", error |-> None]

TailIds == {1, 2}

\* neither generator made, no alarm set
InitProcess ==
    /\ gens = [i \in TailIds |-> [pc |-> "none", timeout |-> <<>>, error |-> None]]
    /\ sigalrm = 0

InitOther == InitWait /\ InitCli(<<>>) /\ InitProcess

Init == InitHandle /\ InitTail /\ InitResponse(<<>>) /\ InitUri(<<>>) /\ InitOther

\* The environment makes the definition's precondition hold or fail
\* (the test puts the object the definition refers to into the bucket).
SetPrecondition(b) ==
    /\ precondition_met # b
    /\ precondition_met' = b
    /\ UNCHANGED <<constructed, fields, remote_jobs, calls, validate_calls, result, tailVars, valueVars>>

\* The Batch service changes what it holds for the job.
RemoteChange(jobs) ==
    /\ remote_jobs # jobs
    /\ remote_jobs' = jobs
    /\ UNCHANGED <<precondition_met, constructed, fields, calls, validate_calls, result,
                   tailVars, valueVars>>

\* BatchJob(definition) going on whatever definition.validate() finds
BatchJobInit_unvalidated ==
    /\ ~constructed
    /\ validate_calls < MaxConstructions
    /\ validate_calls' = validate_calls + 1
    /\ constructed' = TRUE
    /\ is_submitted' = FALSE
    /\ container_overrides' = <<>>
    /\ job_id' = None
    /\ queue' = None
    /\ submit_response' = <<>>
    /\ result' = Return("BatchJob", "job")
    /\ UNCHANGED <<precondition_met, remote_jobs, calls, tailVars, valueVars>>

\* BatchJob(definition): validates the definition, then sets the fields
BatchJobInit ==
    /\ ~constructed
    /\ validate_calls < MaxConstructions
    /\ validate_calls' = validate_calls + 1
    /\ IF precondition_met
       THEN /\ constructed' = TRUE
            /\ is_submitted' = FALSE
            /\ container_overrides' = <<>>
            /\ job_id' = None
            /\ queue' = None
            /\ submit_response' = <<>>
            /\ result' = Return("BatchJob", "job")
       ELSE /\ result' = Raise("BatchJob", "S3ObjectNotFoundError", None)
            /\ UNCHANGED <<constructed, fields>>
    /\ UNCHANGED <<precondition_met, remote_jobs, calls, tailVars, valueVars>>

----------------------------------------------------------------------------
\* BatchJob operations (pendant/aws/batch.py).  The parameter `fails` of an
\* operation says whether the remote call it issues raises instead of replying.

\* BatchJob.describe_jobs: the 'jobs' list of the DescribeJobs reply
describe_jobs(reply) == reply["jobs"]

\* BatchJob.describe_job: `job, *_ = describe_jobs([job_id])` needs at least
\* one record and raises ValueError on an empty list
describe_job(reply) ==
    LET jobs == describe_jobs(reply) IN
    IF Len(jobs) = 0
    THEN [raises |-> TRUE, error |-> "ValueError", job |-> <<>>]
    ELSE [raises |-> FALSE, error |-> None,
          job |-> IF Truthy(Head(jobs)) THEN Head(jobs) ELSE <<>>]

\* what the Batch service replies to DescribeJobs for this job now
DescribeReply == "jobs" :> remote_jobs

NotSubmittedError == "BatchJobSubmissionError"
TransportError == "ClientError"

\* the body of BatchJob.status as a function of the state and the remote
StatusOutcome(op, fails) ==
    IF job_id = None
    THEN [called |-> FALSE, res |-> GuardRaise(op, NotSubmittedError)]
    ELSE IF fails
    THEN [called |-> TRUE, res |-> Raise(op, TransportError, None)]
    ELSE LET d == describe_job(DescribeReply) IN
         IF d.raises
         THEN [called |-> TRUE, res |-> Raise(op, d.error, None)]
         ELSE [called |-> TRUE,
               res |-> Return(op, Get(d.job, "status", BATCH_STATUS_NOTFOUND))]

\* what is_running() and is_runnable() make of the status
Converted(op, s) ==
    IF op = "is_running" THEN s = BATCH_STATUS_RUNNING
    ELSE IF op = "is_runnable" THEN s = BATCH_STATUS_RUNNABLE
    ELSE s

\* status(), is_running() and is_runnable() differ in what they return only
StatusLike(op, fails) ==
    LET o == StatusOutcome(op, fails) IN
    /\ constructed
    /\ o.called => TotalCalls < MaxCalls
    /\ calls' = IF o.called THEN Called("describe_jobs") ELSE calls
    /\ result' = IF ~o.called THEN o.res
                 ELSE Sending(IF o.res.outcome = "return"
                              THEN Return(op, Converted(op, o.res.value[1])) ELSE o.res,
                              job_id)
    /\ UNCHANGED <<precondition_met, constructed, fields, remote_jobs, validate_calls,
                   tailVars, valueVars>>

status(fails) == StatusLike("status", fails)
is_running(fails) == StatusLike("is_running", fails)
is_runnable(fails) == StatusLike("is_runnable", fails)

\* cancel and terminate taking the job back to unsubmitted once the remote
\* has accepted the request
CancelLike_resets(op, api, reason, outcome) ==
    /\ constructed
    /\ IF ~is_submitted
       THEN /\ result' = GuardRaise(op, "AssertionError")
            /\ UNCHANGED <<calls, fields>>
       ELSE /\ TotalCalls < MaxCalls
            /\ calls' = Called(api)
            /\ result' = Sending(IF outcome.raises THEN Raise(op, TransportError, None)
                                  ELSE Return(op, outcome.reply), job_id)
            /\ is_submitted' = outcome.raises
            /\ UNCHANGED <<container_overrides, job_id, queue, submit_response>>
    /\ UNCHANGED <<precondition_met, constructed, remote_jobs, validate_calls, tailVars, valueVars>>

\* cancel(reason) and terminate(reason): an assert guards the remote call
CancelLike(op, api, reason, outcome) ==
    /\ constructed
    /\ IF ~is_submitted
       THEN /\ result' = GuardRaise(op, "AssertionError")
            /\ UNCHANGED calls
       ELSE /\ TotalCalls < MaxCalls
            /\ calls' = Called(api)
            /\ result' = Sending(IF outcome.raises THEN Raise(op, TransportError, None)
                                  ELSE Return(op, outcome.reply), job_id)
    /\ UNCHANGED <<precondition_met, constructed, fields, remote_jobs, validate_calls,
                   tailVars, valueVars>>

PlainReplies == {Returns(MakeReply(m, None)) : m \in {"200", "500"}} \cup {RemoteRaises}

cancel(reason, outcome) == CancelLike("cancel", "cancel_job", reason, outcome)
terminate(reason, outcome) == CancelLike("terminate", "terminate_job", reason, outcome)

\* `container_overrides if container_overrides else {}`
OverridesOf(arg) == IF arg # <<>> /\ Truthy(arg[1]) THEN arg[1] ELSE <<>>

\* submit() calling SubmitJob a second time when the first call raises
SubmitBody_retries(q, co, outcome) ==
    /\ TotalCalls < MaxCalls
    /\ queue' = q
    /\ container_overrides' = OverridesOf(co)
    /\ calls' = [calls EXCEPT !.submit_job = @ + (IF outcome.raises THEN 2 ELSE 1)]
    /\ IF outcome.raises
       THEN /\ result' = Raise("submit", TransportError, None)
            /\ UNCHANGED <<is_submitted, job_id, submit_response>>
       ELSE LET response == SubmitJobResponse(outcome.reply) IN
            IF is_ok(response)
            THEN /\ is_submitted' = TRUE
                 /\ job_id' = response.job_id
                 /\ submit_response' = <<response>>
                 /\ result' = Return("submit", response)
            ELSE /\ result' = Raise("submit", "BatchJobSubmissionError", outcome.reply)
                 /\ UNCHANGED <<is_submitted, job_id, submit_response>>

\* submit(), after its assert: the fields set before the call, the
\* SubmitJob call, and what the reply does
SubmitBody(q, co, outcome) ==
    /\ TotalCalls < MaxCalls
    /\ queue' = q
    /\ container_overrides' = OverridesOf(co)
    /\ calls' = Called("submit_job")
    /\ IF outcome.raises
       THEN /\ result' = Raise("submit", TransportError, None)
            /\ UNCHANGED <<is_submitted, job_id, submit_response>>
       ELSE LET response == SubmitJobResponse(outcome.reply) IN
            IF is_ok(response)
            THEN /\ is_submitted' = TRUE
                 /\ job_id' = response.job_id
                 /\ submit_response' = <<response>>
                 /\ result' = Return("submit", response)
            ELSE /\ result' = Raise("submit", "BatchJobSubmissionError", outcome.reply)
                 /\ UNCHANGED <<is_submitted, job_id, submit_response>>

\* submit() validating the definition again before it submits
submit_validates(q, co, outcome) ==
    /\ constructed
    /\ validate_calls' = validate_calls + 1
    /\ IF ~precondition_met
       THEN /\ result' = Raise("submit", "S3ObjectNotFoundError", None)
            /\ UNCHANGED <<fields, calls>>
       ELSE IF is_submitted
       THEN /\ result' = GuardRaise("submit", "AssertionError")
            /\ UNCHANGED <<fields, calls>>
       ELSE SubmitBody(q, co, outcome)
    /\ UNCHANGED <<precondition_met, constructed, remote_jobs, tailVars, valueVars>>

\* submit without `assert not self.is_submitted()`
submit_unguarded(q, co, outcome) ==
    /\ constructed
    /\ SubmitBody(q, co, outcome)
    /\ UNCHANGED <<precondition_met, constructed, remote_jobs, validate_calls, tailVars, valueVars>>

\* submit(queue, container_overrides)
submit(q, co, outcome) ==
    /\ constructed
    /\ IF is_submitted
       THEN /\ result' = GuardRaise("submit", "AssertionError")
            /\ UNCHANGED <<fields, calls>>
       ELSE SubmitBody(q, co, outcome)
    /\ UNCHANGED <<precondition_met, constructed, remote_jobs, validate_calls, tailVars, valueVars>>

\* log_stream_name(): job['container']['logStreamName'] raises KeyError when
\* the record has no container or the container has no stream name
LogStreamNameOutcome(op, fails) ==
    IF job_id = None
    THEN [called |-> FALSE, res |-> GuardRaise(op, NotSubmittedError)]
    ELSE IF fails
    THEN [called |-> TRUE, res |-> Raise(op, TransportError, None)]
    ELSE LET d == describe_job(DescribeReply) IN
         IF d.raises
         THEN [called |-> TRUE, res |-> Raise(op, d.error, None)]
         ELSE IF "container" \in DOMAIN d.job
                 /\ "logStreamName" \in DOMAIN d.job["container"]
         THEN [called |-> TRUE,
               res |-> Return(op, d.job["container"]["logStreamName"])]
         ELSE [called |-> TRUE, res |-> Raise(op, "KeyError", None)]

log_stream_name(fails) ==
    LET o == LogStreamNameOutcome("log_stream_name", fails) IN
    /\ constructed
    /\ o.called => TotalCalls < MaxCalls
    /\ calls' = IF o.called THEN Called("describe_jobs") ELSE calls
    /\ result' = IF o.called THEN Sending(o.res, job_id) ELSE o.res
    /\ UNCHANGED <<precondition_met, constructed, fields, remote_jobs, validate_calls,
                   tailVars, valueVars>>

\* the GetLogEvents outcomes tried by log_stream_events
JobLogOutcomes ==
    {RemoteRaises, Returns(<<>>),
     Returns("events" :> <<[timestamp |-> 0, message |-> "a", ingestionTime |-> 1]>>)}

\* log_stream_events(): resolves the stream name, then gets its events
log_stream_events(fails, outcome) ==
    LET n == LogStreamNameOutcome("log_stream_events", fails)
        got == get_log_events(outcome.reply)
        fetched == n.res.outcome = "return"
    IN
    /\ constructed
    /\ n.called => TotalCalls < MaxCalls
    /\ fetched => TotalCalls + 1 < MaxCalls
    /\ calls' = IF fetched
                THEN [calls EXCEPT !.describe_jobs = @ + 1, !.get_log_events = @ + 1]
                ELSE IF n.called THEN Called("describe_jobs") ELSE calls
    /\ result' = IF ~n.called THEN n.res
                 ELSE Sending(IF ~fetched THEN n.res
                              ELSE IF outcome.raises
                              THEN Raise("log_stream_events", TransportError, None)
                              ELSE IF got.raises
                              THEN Raise("log_stream_events", got.error, None)
                              ELSE Return("log_stream_events", got.events),
                              job_id)
    /\ UNCHANGED <<precondition_met, constructed, fields, remote_jobs, validate_calls,
                   tailVars, valueVars>>

----------------------------------------------------------------------------
\* The log tail: AwsLogUtil.yield_log_events (pendant/aws/logs.py) under
\* timeout_after (pendant/util.py).  The generator runs only while its
\* consumer asks for the next event; between a yield and the next request it
\* is suspended.

StartTimes == 0..MaxTs
Timeouts == {<<>>} \cup {<<n>> : n \in 0..MaxTimeout}

\* a call of yield_log_events makes the generator; its body has not started
yield_log_events(st, to) ==
    /\ tail_pc = "none"
    /\ tail_pc' = "new"
    /\ start_arg' = st
    /\ start_time' = st
    /\ timeout' = to
    /\ UNCHANGED <<events, idx, alarm, requests, pages, emitted, tail_error, jobVars, valueVars>>

\* timeout_after.__enter__: signal.alarm(seconds) when seconds is not None;
\* alarm(0) sets no alarm
Enter(seconds, pending) == IF seconds # <<>> THEN seconds[1] ELSE pending

\* timeout_after.__exit__: signal.alarm(0) when seconds is not None
Exit(seconds, pending) == IF seconds # <<>> THEN 0 ELSE pending

\* the consumer's first next(): the body starts, enters timeout_after and
\* issues its first GetLogEvents call, which is then pending
Start ==
    /\ tail_pc = "new"
    /\ tail_pc' = "fetch"
    /\ alarm' = Enter(timeout, alarm)
    /\ requests' = Append(requests, start_time)
    /\ UNCHANGED <<timeout, start_arg, start_time, events, idx, pages, emitted,
                   tail_error, jobVars, valueVars>>

\* an exception leaves the with block and ends the generator
Dies(e) ==
    /\ tail_pc' = "done"
    /\ tail_error' = e
    /\ alarm' = Exit(timeout, alarm)

\* `if events: start_time = events[-1].timestamp + 1`
NextStartTime(evs, st) == IF Len(evs) > 0 THEN evs[Len(evs)].timestamp + 1 ELSE st

\* the pending GetLogEvents call ends, and the loop runs up to the for
\* statement: get_log_events wraps the reply, then the cursor update
Fetch(outcome) ==
    /\ tail_pc = "fetch"
    /\ UNCHANGED requests
    /\ IF outcome.raises
       THEN /\ Dies(TransportError)
            /\ UNCHANGED <<pages, start_time, events, idx>>
       ELSE LET got == get_log_events(outcome.reply) IN
            /\ pages' = Append(pages, Get(outcome.reply, "events", <<>>))
            /\ IF got.raises
               THEN /\ Dies(got.error)
                    /\ UNCHANGED <<start_time, events, idx>>
               ELSE /\ events' = got.events
                    /\ start_time' = NextStartTime(got.events, start_time)
                    /\ idx' = 0
                    /\ tail_pc' = "loop"
                    /\ UNCHANGED <<alarm, tail_error>>
    /\ UNCHANGED <<timeout, start_arg, emitted, jobVars, valueVars>>

\* `for event in events: yield event`: the next event goes to the consumer
Yield ==
    /\ tail_pc = "loop"
    /\ idx < Len(events)
    /\ emitted' = Append(emitted, events[idx + 1])
    /\ idx' = idx + 1
    /\ tail_pc' = "suspended"
    /\ UNCHANGED <<timeout, start_arg, start_time, events, alarm, requests, pages,
                   tail_error, jobVars, valueVars>>

\* the consumer asks for the next event
Resume ==
    /\ tail_pc = "suspended"
    /\ tail_pc' = "loop"
    /\ UNCHANGED <<timeout, start_arg, start_time, events, idx, alarm, requests, pages,
                   emitted, tail_error, jobVars, valueVars>>

\* time.sleep(REQUEST_SLEEP_TIME) after the page; a pending alarm that
\* falls due during the sleep raises TimeoutError in the generator;
\* otherwise the loop issues its next GetLogEvents call
Sleep ==
    /\ tail_pc = "loop"
    /\ idx = Len(events)
    /\ IF alarm > 0 /\ alarm <= REQUEST_SLEEP_TIME
       THEN /\ Dies("TimeoutError")
            /\ UNCHANGED requests
       ELSE /\ tail_pc' = "fetch"
            /\ alarm' = IF alarm > 0 THEN alarm - REQUEST_SLEEP_TIME ELSE alarm
            /\ requests' = Append(requests, start_time)
            /\ UNCHANGED tail_error
    /\ UNCHANGED <<timeout, start_arg, start_time, events, idx, pages, emitted,
                   jobVars, valueVars>>

\* a second passes while the remote call is pending; when the alarm falls
\* due, handle_timeout raises TimeoutError in the generator
Elapse ==
    /\ tail_pc = "fetch"
    /\ alarm > 0
    /\ IF alarm = 1
       THEN Dies("TimeoutError")
       ELSE /\ alarm' = alarm - 1
            /\ UNCHANGED <<tail_pc, tail_error>>
    /\ UNCHANGED <<timeout, start_arg, start_time, events, idx, requests, pages, emitted,
                   jobVars, valueVars>>

\* the consumer closes the generator: before its first next() nothing has
\* run; at a yield GeneratorExit leaves the with block
Close ==
    /\ tail_pc \in {"new", "suspended"}
    /\ tail_pc' = "done"
    /\ alarm' = IF tail_pc = "suspended" THEN Exit(timeout, alarm) ELSE alarm
    /\ UNCHANGED <<timeout, start_arg, start_time, events, idx, requests, pages, emitted,
                   tail_error, jobVars, valueVars>>

\* The for loop and the sleep come after get_log_events, which raises on
\* every reply: Yield, Resume and Sleep are never enabled and are left out
\* of the next-state relation.
NextLog ==
    \/ \E st \in StartTimes, to \in Timeouts : yield_log_events(st, to)
    \/ Start
    \/ \E o \in LogOutcomes : Fetch(o)
    \/ Elapse
    \/ Close

SpecLog == Init /\ [][NextLog]_vars

Next ==
    \/ \E b \in BOOLEAN : SetPrecondition(b)
    \/ \E jobs \in JobLists : RemoteChange(jobs)
    \/ BatchJobInit
    \/ \E q \in Queues, co \in OverrideArgs, o \in SubmitOutcomes : submit(q, co, o)
    \/ \E f \in BOOLEAN : status(f)
    \/ \E f \in BOOLEAN : is_running(f)
    \/ \E f \in BOOLEAN : is_runnable(f)
    \/ \E r \in Reasons, o \in PlainReplies : cancel(r, o)
    \/ \E r \in Reasons, o \in PlainReplies : terminate(r, o)
    \/ \E f \in BOOLEAN : log_stream_name(f)
    \/ \E f \in BOOLEAN, o \in JobLogOutcomes : log_stream_events(f, o)

Spec == Init /\ [][Next]_vars

----------------------------------------------------------------------------
\* SubmitJobResponse as a value (pendant/aws/response.py): one response is
\* built of a reply, then asked for its http_code() and its is_ok().

StatusCodes == {200, 201, 404, 500}

\* the ResponseMetadata of a reply: <<>> when the reply has none, else <<m>>
\* for a mapping m with or without an HTTPStatusCode
Metadatas ==
    {<<>>, << <<>> >>, << ("RequestId" :> "r") >>}
    \cup {<< ("HTTPStatusCode" :> c) >> : c \in StatusCodes}
    \cup {<< ("HTTPStatusCode" :> c) @@ ("RequestId" :> "r") >> : c \in StatusCodes}

ReplyOf(meta, j) ==
    (IF meta = <<>> THEN <<>> ELSE "ResponseMetadata" :> meta[1])
    @@ (IF j = None THEN <<>> ELSE ("jobId" :> j) @@ ("jobName" :> "job-name"))

Replies == {ReplyOf(meta, j) : meta \in Metadatas, j \in JobIds \cup {None}}

\* response = SubmitJobResponse(reply)
Wrap ==
    /\ response_obj = <<>>
    /\ response_obj' = <<SubmitJobResponse(reply_arg)>>
    /\ UNCHANGED <<reply_arg, http, ok, uriVars, jobVars, tailVars, otherVars>>

\* response.http_code()
CallHttpCode ==
    /\ response_obj # <<>>
    /\ http = <<>>
    /\ http' = <<http_code(response_obj[1])>>
    /\ UNCHANGED <<reply_arg, response_obj, ok, uriVars, jobVars, tailVars, otherVars>>

\* response.is_ok()
CallIsOk ==
    /\ response_obj # <<>>
    /\ ok = <<>>
    /\ ok' = <<is_ok(response_obj[1])>>
    /\ UNCHANGED <<reply_arg, response_obj, http, uriVars, jobVars, tailVars, otherVars>>

InitReplies ==
    /\ InitHandle /\ InitTail /\ InitUri(<<>>) /\ InitOther
    /\ \E r \in Replies : InitResponse(r)

NextResponse ==
    \/ Wrap
    \/ CallHttpCode
    \/ CallIsOk

SpecResponse == InitReplies /\ [][NextResponse]_vars

----------------------------------------------------------------------------
\* S3Uri construction (pendant/aws/s3.py).  A string is the sequence of its
\* characters.

Chars == {"s", "3", ":", "/", " ", "h"}

\* the characters of bucket names, keys and segments, and the delimiter
NameChars == {"s", "h", "/"}

\* the literal the patterns begin with
Scheme == <<"s", "3", ":", "/", "/">>

\* what follows the scheme in the longer paths
Rests == UNION {[1..n -> NameChars] : n \in 0..MaxRestLen}

\* every short string, and the scheme followed by every rest
Paths == UNION {[1..n -> Chars] : n \in 0..MaxPathLen}
         \cup {Scheme \o rest : rest \in Rests}

\* the literal lit stands in the string at the position pos (from 1)
LiteralAt(str, pos, lit) ==
    /\ pos + Len(lit) - 1 <= Len(str)
    /\ SubSeq(str, pos, pos + Len(lit) - 1) = lit

\* the validation pattern without its anchor, matched anywhere in the path
pattern_validate_unanchored(path) ==
    \E pos \in 1..(Len(path) + 1) : LiteralAt(path, pos, Scheme)

\* _pattern_validate.match(path) for r'^s3://.*': the literal at the start
\* of the path, then `.*`, which takes any rest and may take none
pattern_validate(path) == LiteralAt(path, 1, Scheme)

\* S3Uri(path): `assert self._pattern_validate.match(path)`, then the field
S3UriInit ==
    /\ uri = <<>> /\ uri_error = None
    /\ IF pattern_validate(path_arg)
       THEN /\ uri' = <<[path |-> path_arg]>>
            /\ UNCHANGED uri_error
       ELSE /\ uri_error' = "AssertionError"
            /\ UNCHANGED uri
    /\ UNCHANGED <<path_arg, uriOps, responseVars, jobVars, tailVars, otherVars>>

\* S3Uri(path) as an expression: the locator, or the error of its assert
S3Uri(path) ==
    IF pattern_validate(path)
    THEN [raises |-> FALSE, error |-> None, uri |-> <<[path |-> path]>>]
    ELSE [raises |-> TRUE, error |-> "AssertionError", uri |-> <<>>]

\* operands of the operators: a string, or the number 2, which is none
Segments == UNION {[1..n -> NameChars] : n \in 0..MaxSegmentLen}

Operands == {[str |-> TRUE, chars |-> c] : c \in Segments}
            \cup {[str |-> FALSE, chars |-> <<>>]}

delimiter == <<"/">>

\* path.endswith(suffix)
EndsWith(path, suffix) ==
    /\ Len(suffix) <= Len(path)
    /\ SubSeq(path, Len(path) - Len(suffix) + 1, Len(path)) = suffix

\* an operator that returns NotImplemented for an operand that is no string
\* makes the expression raise TypeError
NotImplementedOutcome == [raises |-> TRUE, error |-> "TypeError", uri |-> <<>>]

\* self + other
Add(self, other) ==
    IF ~other.str THEN NotImplementedOutcome
    ELSE S3Uri(self.path \o other.chars)

\* a join that puts the delimiter between the parts whatever the path ends with
Join_always_delimits(self, other) ==
    IF ~other.str THEN NotImplementedOutcome
    ELSE S3Uri(self.path \o delimiter \o other.chars)

\* self / other and self // other
Join(self, other) ==
    IF ~other.str THEN NotImplementedOutcome
    ELSE IF EndsWith(self.path, delimiter)
    THEN S3Uri(self.path \o other.chars)
    ELSE S3Uri(self.path \o delimiter \o other.chars)

\* one call on the locator: the outcome is recorded, the locator is not touched
UriCall(op, other, outcome) ==
    /\ uri # <<>>
    /\ uri_call.op = "none"
    /\ uri_call' = [op |-> op, other |-> other]
    /\ derived' = outcome.uri
    /\ derived_error' = outcome.error
    /\ UNCHANGED <<path_arg, uri, uri_error, bucket_out, key_out, head, exists_out,
                   exists_error, responseVars, jobVars, tailVars, otherVars>>

S3UriAdd(other) == UriCall("+", other, Add(uri[1], other))
add_suffix(other) == UriCall("add_suffix", other, Add(uri[1], other))
S3UriTrueDiv(other) == UriCall("/", other, Join(uri[1], other))
S3UriFloorDiv(other) == UriCall("//", other, Join(uri[1], other))

\* the longest run of characters other than '/' the string begins with
RECURSIVE TakeNonDelimiter(_)
TakeNonDelimiter(str) ==
    IF str = <<>> \/ Head(str) = "/" THEN <<>>
    ELSE <<Head(str)>> \o TakeNonDelimiter(Tail(str))

\* what follows the first n characters of the string
Drop(str, n) == SubSeq(str, n + 1, Len(str))

\* a key pattern without its `$`: the first segment of any path is a key
pattern_key_unanchored(path) ==
    IF ~LiteralAt(path, 1, Scheme) THEN <<>>
    ELSE LET rest == Drop(path, Len(Scheme))
             name == TakeNonDelimiter(rest)
             after == Drop(rest, Len(name))
         IN IF name = <<>> \/ after = <<>> \/ Head(after) # "/" THEN <<>>
            ELSE <<TakeNonDelimiter(Tail(after))>>

\* _pattern_bucket.search(path) for r'^s3://([^/]*)': <<>> when there is no
\* match, else <<group 1>>
pattern_bucket(path) ==
    IF ~LiteralAt(path, 1, Scheme) THEN <<>>
    ELSE <<TakeNonDelimiter(Drop(path, Len(Scheme)))>>

\* _pattern_key.search(path) for r'^s3://[^/]+/([^/]*)$': <<>> when there is
\* no match, else <<group 1>>
pattern_key(path) ==
    IF ~LiteralAt(path, 1, Scheme) THEN <<>>
    ELSE LET rest == Drop(path, Len(Scheme))
             name == TakeNonDelimiter(rest)
             after == Drop(rest, Len(name))
         IN IF name = <<>> \/ after = <<>> \/ Head(after) # "/" THEN <<>>
            ELSE LET segment == TakeNonDelimiter(Tail(after)) IN
                 IF Len(segment) = Len(Tail(after)) THEN <<segment>> ELSE <<>>

\* the bucket property: `search.groups()[0] if search else ''`
bucket(self) ==
    LET search == pattern_bucket(self.path) IN
    IF search # <<>> THEN search[1] ELSE <<>>

\* the key property: `search.groups()[0] if search else ''`
key(self) ==
    LET search == pattern_key(self.path) IN
    IF search # <<>> THEN search[1] ELSE <<>>

GetBucket ==
    /\ uri # <<>>
    /\ bucket_out = <<>>
    /\ bucket_out' = <<bucket(uri[1])>>
    /\ UNCHANGED <<path_arg, uri, uri_error, uri_call, derived, derived_error, key_out,
                   head, exists_out, exists_error, responseVars, jobVars, tailVars, otherVars>>

GetKey ==
    /\ uri # <<>>
    /\ key_out = <<>>
    /\ key_out' = <<key(uri[1])>>
    /\ UNCHANGED <<path_arg, uri, uri_error, uri_call, derived, derived_error, bucket_out,
                   head, exists_out, exists_error, responseVars, jobVars, tailVars, otherVars>>

\* what boto3's Object(bucket, key).load() does: it returns, raises
\* ClientError with an error code, or raises another exception
HeadOutcomes ==
    {[kind |-> "loaded", code |-> None], [kind |-> "EndpointConnectionError", code |-> None]}
    \cup {[kind |-> "ClientError", code |-> c] : c \in {"404", "403", "500"}}

\* s3_object_exists returning False on every ClientError
s3_object_exists_any_code(bucket_name, key_name, outcome) ==
    IF outcome.kind = "loaded"
    THEN [raises |-> FALSE, error |-> None, value |-> <<TRUE>>]
    ELSE IF outcome.kind = "ClientError"
    THEN [raises |-> FALSE, error |-> None, value |-> <<FALSE>>]
    ELSE [raises |-> TRUE, error |-> outcome.kind, value |-> <<>>]

\* s3_object_exists(bucket, key)
s3_object_exists(bucket_name, key_name, outcome) ==
    IF outcome.kind = "loaded"
    THEN [raises |-> FALSE, error |-> None, value |-> <<TRUE>>]
    ELSE IF outcome.kind = "ClientError"
    THEN IF outcome.code = "404"
         THEN [raises |-> FALSE, error |-> None, value |-> <<FALSE>>]
         ELSE [raises |-> TRUE, error |-> "ClientError", value |-> <<>>]
    ELSE [raises |-> TRUE, error |-> outcome.kind, value |-> <<>>]

\* S3Uri.object_exists(): s3_object_exists(self.bucket, self.key)
object_exists(outcome) ==
    LET got == s3_object_exists(bucket(uri[1]), key(uri[1]), outcome) IN
    /\ uri # <<>>
    /\ head.outcome.kind = "none"
    /\ head' = [bucket |-> bucket(uri[1]), key |-> key(uri[1]), outcome |-> outcome]
    /\ exists_out' = got.value
    /\ exists_error' = got.error
    /\ UNCHANGED <<path_arg, uri, uri_error, uri_call, derived, derived_error, bucket_out,
                   key_out, responseVars, jobVars, tailVars, otherVars>>

InitPaths ==
    /\ InitHandle /\ InitTail /\ InitResponse(<<>>) /\ InitOther
    /\ \E p \in Paths : InitUri(p)

NextS3 ==
    \/ S3UriInit
    \/ \E other \in Operands : S3UriAdd(other)
    \/ \E other \in Operands : add_suffix(other)
    \/ \E other \in Operands : S3UriTrueDiv(other)
    \/ \E other \in Operands : S3UriFloorDiv(other)
    \/ GetBucket
    \/ GetKey
    \/ \E o \in HeadOutcomes : object_exists(o)

SpecS3 == InitPaths /\ [][NextS3]_vars

----------------------------------------------------------------------------
\* Properties of the job handle, checked under Spec.

\* the step is a call of the operation op: the operation's outcome is the
\* new result, and the step is not one of the environment
CallOf(op) ==
    /\ result'.op = op
    /\ remote_jobs' = remote_jobs /\ precondition_met' = precondition_met
    /\ (result' # result \/ calls' # calls)

\* a reply whose status metadata carries HTTP status 200
ReplyIs200(reply) ==
    /\ "ResponseMetadata" \in DOMAIN reply
    /\ "HTTPStatusCode" \in DOMAIN reply["ResponseMetadata"]
    /\ reply["ResponseMetadata"]["HTTPStatusCode"] = 200

\* C1: in every state of a BatchJob, job_id, queue and the stored submit
\* response are all absent or all present, and is_submitted() is true
\* exactly when they are present.
C1_AllOrNothing ==
    constructed =>
        /\ (job_id = None) = (queue = None)
        /\ (queue = None) = (submit_response = <<>>)
        /\ is_submitted = (job_id # None)

\* C2: a submit() call made while is_submitted() is true fails, issues no
\* SubmitJob call and leaves job_id, queue, container_overrides and the
\* stored submit response unchanged.
C2_SubmitOnce ==
    [][(is_submitted /\ CallOf("submit")) =>
          /\ result'.outcome = "raise"
          /\ calls' = calls
          /\ UNCHANGED <<job_id, queue, container_overrides, submit_response>>]_vars

\* a second submit() has been refused on a submitted job
C2_Witness ==
    /\ is_submitted
    /\ result.op = "submit" /\ result.outcome = "raise" /\ result.guard
    /\ calls.submit_job = 1

\* C3: submit() on an unsubmitted job, for every SubmitJob reply: a reply with
\* status 200 makes the job submitted, job_id the reply's jobId, and the
\* wrapped reply is returned; any other reply (another status, or no status
\* metadata) makes submit() fail with the submission error carrying the raw
\* reply, and the job stays unsubmitted with job_id absent.
C3_SubmitReply ==
    [][(~is_submitted /\ CallOf("submit")) =>
          \A q \in Queues, co \in OverrideArgs, o \in SubmitOutcomes :
              (~o.raises /\ submit(q, co, o)) =>
                  IF ReplyIs200(o.reply)
                  THEN /\ is_submitted'
                       /\ job_id' = Get(o.reply, "jobId", None)
                       /\ result'.outcome = "return"
                       /\ result'.value[1].response = o.reply
                  ELSE /\ result'.outcome = "raise"
                       /\ result'.error = "BatchJobSubmissionError"
                       /\ result'.value = <<o.reply>>
                       /\ ~is_submitted'
                       /\ job_id' = None]_vars

\* submit() has failed on a reply that carries no status metadata
C3_Witness ==
    /\ result.op = "submit" /\ result.outcome = "raise"
    /\ result.error = "BatchJobSubmissionError"
    /\ result.value = <<MakeReply("absent", None)>>
    /\ ~is_submitted /\ job_id = None

\* C4: is_submitted() is false at construction and, once true, stays true
\* whatever operation follows and whatever the remote replies.
C4_Monotonic ==
    [][/\ is_submitted => is_submitted'
       /\ (~constructed /\ constructed') => ~is_submitted']_vars

\* an operation that talks to the remote has run on a submitted job
C4_Witness ==
    /\ is_submitted
    /\ result.op \in {"cancel", "terminate", "status", "log_stream_events"}
    /\ ~result.guard

\* C5: every operation refused by its submission-state guard fails with the
\* same error kind, the one status() raises on a never-submitted job.
C5_SameErrorKind == result.guard => result.error = NotSubmittedError

\* C6: BatchJob(definition) calls definition.validate(); with the precondition
\* unmet the construction fails with the validation error and no instance
\* exists, with the precondition met it yields an unsubmitted job with no
\* job_id, no queue and empty container_overrides.
C6_Construction ==
    [][(~constructed /\ BatchJobInit) =>
          /\ validate_calls' = validate_calls + 1
          /\ IF precondition_met
             THEN /\ constructed' /\ ~is_submitted'
                  /\ job_id' = None /\ queue' = None /\ container_overrides' = <<>>
                  /\ result'.outcome = "return"
             ELSE /\ ~constructed'
                  /\ result'.outcome = "raise"
                  /\ result'.error = "S3ObjectNotFoundError"]_vars

\* a construction has succeeded after one that failed
C6_Witness ==
    /\ constructed /\ validate_calls = 2
    /\ result.op = "BatchJob" /\ result.outcome = "return"

\* the status the remote holds for the job, the sentinel when it holds none
StatusHeld ==
    IF Len(remote_jobs) > 0 /\ "status" \in DOMAIN remote_jobs[1]
    THEN remote_jobs[1]["status"] ELSE BATCH_STATUS_NOTFOUND

\* C7: on a submitted job, whenever the describe reply arrives, status()
\* returns the status in the reply, or NOTFOUND when the reply has no status
\* for the job, including when it has no record of the job; it never raises.
C7_StatusNeverRaises ==
    [][(is_submitted /\ job_id # None /\ CallOf("status")
          /\ result'.error # TransportError) =>
              (result'.outcome = "return" /\ result'.value = <<StatusHeld>>)]_vars

\* C8: every status() call on a submitted job issues one describe-job query,
\* returns the status the remote holds at that call unless the query fails,
\* and changes no field of the BatchJob.
C8_StatusLive ==
    [][(is_submitted /\ CallOf("status")) =>
          /\ calls'.describe_jobs = calls.describe_jobs + 1
          /\ result'.error # TransportError =>
                (result'.outcome = "return" /\ result'.value = <<StatusHeld>>)
          /\ UNCHANGED fields]_vars

\* C15: cancel(reason) and terminate(reason) on a submitted job issue one
\* CancelJob, respectively TerminateJob, call and no other, send it this
\* job's job_id, return the raw reply when the remote replies, and change no
\* field of the BatchJob whatever the reply: the job stays submitted.
C15_CancelTerminate ==
    [][(is_submitted /\ (CallOf("cancel") \/ CallOf("terminate"))) =>
          /\ calls' = Called(IF result'.op = "cancel" THEN "cancel_job"
                             ELSE "terminate_job")
          /\ result'.sent = <<job_id>>
          /\ \A r \in Reasons, o \in PlainReplies :
                (~o.raises /\ (cancel(r, o) \/ terminate(r, o))) =>
                    (result'.outcome = "return" /\ result'.value = <<o.reply>>)
          /\ UNCHANGED fields
          /\ is_submitted']_vars

\* terminate() has returned the remote's refusal on a submitted job
C15_Witness ==
    /\ is_submitted
    /\ result.op = "terminate" /\ result.outcome = "return"
    /\ result.value = <<MakeReply("500", None)>>
    /\ result.sent = <<job_id>>
    /\ calls.terminate_job = 1

\* C17: definition.validate() is called once, by the construction of the
\* BatchJob, and by no submit(): a submit() on a job whose precondition no
\* longer holds goes to the remote all the same, and a 200 reply makes the
\* job submitted.
C17_ValidateOnce ==
    [][/\ validate_calls' # validate_calls =>
             /\ ~constructed /\ result'.op = "BatchJob"
             /\ validate_calls' = validate_calls + 1
       /\ CallOf("submit") => validate_calls' = validate_calls
       /\ (~is_submitted /\ ~precondition_met /\ CallOf("submit")) =>
             /\ calls' = Called("submit_job")
             /\ result'.error # "S3ObjectNotFoundError"
             /\ \A q \in Queues, co \in OverrideArgs, o \in SubmitOutcomes :
                   (~o.raises /\ ReplyIs200(o.reply) /\ submit(q, co, o)) =>
                       is_submitted']_vars

\* a job whose precondition stopped holding after its construction has been
\* submitted
C17_Witness ==
    /\ is_submitted /\ ~precondition_met
    /\ validate_calls = 1
    /\ result.op = "submit" /\ result.outcome = "return"

\* the remote's record of the job names its log stream
HasLogStream ==
    /\ Len(remote_jobs) > 0
    /\ "container" \in DOMAIN remote_jobs[1]
    /\ "logStreamName" \in DOMAIN remote_jobs[1]["container"]

\* C18: on a submitted job, whenever the describe reply arrives,
\* log_stream_name() returns the log stream name the remote record holds,
\* and when the record holds none it fails with the log-stream-not-found
\* error, which is neither the not-submitted error nor a transport error.
C18_LogStreamName ==
    [][(is_submitted /\ job_id # None /\ CallOf("log_stream_name")
          /\ result'.error # TransportError) =>
              IF HasLogStream
              THEN /\ result'.outcome = "return"
                   /\ result'.value = <<remote_jobs[1]["container"]["logStreamName"]>>
              ELSE /\ result'.outcome = "raise"
                   /\ result'.error = "LogStreamNotFoundError"]_vars

\* the operations that describe the job
Describers == {"status", "is_running", "is_runnable", "log_stream_name"}

\* C19 as stated: one submit() issues at most one SubmitJob, one status()
\* exactly one DescribeJobs, one cancel() exactly one CancelJob and one
\* terminate() exactly one TerminateJob.
C19_ExactlyOne ==
    [][/\ CallOf("submit") => calls' \in {calls, Called("submit_job")}
       /\ CallOf("status") => calls' = Called("describe_jobs")
       /\ CallOf("cancel") => calls' = Called("cancel_job")
       /\ CallOf("terminate") => calls' = Called("terminate_job")]_vars

\* C19, amended: no operation repeats a remote call.  submit() issues one
\* SubmitJob, and none when refused on a submitted job; status() and the
\* other describing operations issue one DescribeJobs, and none when refused
\* for want of a job_id; cancel() and terminate() issue one CancelJob,
\* TerminateJob, and none when refused on an unsubmitted job;
\* log_stream_events() issues at most one DescribeJobs and one GetLogEvents;
\* an operation refused by its guard issues no call, and an error of the
\* remote is raised to the caller after that one call.
C19_AttemptOnce ==
    [][/\ CallOf("submit") =>
             calls' = IF is_submitted THEN calls ELSE Called("submit_job")
       /\ (\E op \in Describers : CallOf(op)) =>
             calls' = IF job_id = None THEN calls ELSE Called("describe_jobs")
       /\ CallOf("cancel") =>
             calls' = IF is_submitted THEN Called("cancel_job") ELSE calls
       /\ CallOf("terminate") =>
             calls' = IF is_submitted THEN Called("terminate_job") ELSE calls
       /\ CallOf("log_stream_events") =>
             \/ calls' = calls /\ job_id = None
             \/ calls' = Called("describe_jobs")
             \/ calls' = [calls EXCEPT !.describe_jobs = @ + 1, !.get_log_events = @ + 1]
       /\ result'.guard => calls' = calls
       /\ (result'.error = TransportError /\ result' # result) =>
             (result'.outcome = "raise" /\ calls' # calls)]_vars

\* the remote has raised on a status() call and on the submit() before it
C19_Witness ==
    /\ result.op = "status" /\ result.error = TransportError
    /\ calls.describe_jobs = 1 /\ calls.submit_job = 2

\* C26: the guard of status() and log_stream_name(), job_id present, agrees
\* in every state with the guard of cancel(), terminate() and submit(),
\* is_submitted(): once submit() has returned, the describing operations are
\* never refused as not submitted.
C26_GuardsAgree ==
    /\ constructed => (is_submitted = (job_id # None))
    /\ (is_submitted /\ result.op \in Describers) => ~result.guard

\* C27: over any sequence of operations on one BatchJob at most one SubmitJob
\* reply is accepted, job_id and the stored response never change once set,
\* and a submit() that fails leaves the job unsubmitted, so that the next
\* submit() is not refused.
C27_OneAcceptedReply ==
    [][/\ (constructed /\ job_id # None) => job_id' = job_id
       /\ (constructed /\ submit_response # <<>>) => submit_response' = submit_response
       /\ (CallOf("submit") /\ result'.outcome = "return") =>
             (~is_submitted /\ submit_response = <<>> /\ is_submitted')
       /\ (~is_submitted /\ CallOf("submit")) =>
             /\ ~result'.guard
             /\ result'.outcome = "raise" => ~is_submitted']_vars

\* a submit() has been accepted after one that failed, and a third refused
C27_Witness ==
    /\ is_submitted /\ job_id # None
    /\ calls.submit_job = 2
    /\ result.op = "submit" /\ result.guard

\* C28: a submit() that fails, because the remote call raises or the reply
\* is not OK, leaves every field of the BatchJob as it was before the call,
\* queue and container_overrides included.
C28_FailedSubmitFrame ==
    [][(CallOf("submit") /\ result'.outcome = "raise") => UNCHANGED fields]_vars

----------------------------------------------------------------------------
\* Properties of the log tail, checked under SpecLog.

RECURSIVE Concat(_)
Concat(ps) == IF ps = <<>> THEN <<>> ELSE Head(ps) \o Concat(Tail(ps))

IsPrefix(s, t) == Len(s) <= Len(t) /\ SubSeq(t, 1, Len(s)) = s

\* the cursor the rule prescribes after the pages ps, starting from st
RECURSIVE ExpectedCursor(_, _)
ExpectedCursor(st, ps) ==
    IF ps = <<>> THEN st
    ELSE LET last == ps[Len(ps)] IN
         IF Len(last) > 0 THEN last[Len(last)].timestamp + 1
         ELSE ExpectedCursor(st, SubSeq(ps, 1, Len(ps) - 1))

\* C9: each fetch is sent the initial start_time while no event has been
\* received and otherwise 1 + the timestamp of the last event of the most
\* recent non-empty page, and after each page the tail holds that cursor for
\* its next fetch.
C9_CursorRule ==
    /\ \A i \in 1..Len(requests) :
          requests[i] = ExpectedCursor(start_arg, SubSeq(pages, 1, i - 1))
    /\ Len(pages) > 0 => start_time = ExpectedCursor(start_arg, pages)

\* every event of the pages received, as LogEvents, in the order received
AllFetched ==
    LET raw == Concat(pages) IN [i \in 1..Len(raw) |-> LogEvent(raw[i])]

\* C10: the events yielded are the events of the pages fetched, once each, in
\* page order and in the order received within a page: always a prefix of
\* them, and all of them unless the tail is in the middle of a page or was
\* stopped by its timeout or its consumer.
C10_EmitsAll ==
    /\ IsPrefix(emitted, AllFetched)
    /\ (tail_pc = "fetch" \/ (tail_pc = "done" /\ tail_error \notin {None, "TimeoutError"}))
          => emitted = AllFetched

\* C13: with a timeout configured (any value that is not None, 0 included)
\* the tail runs with its budget counting down, and against a remote whose
\* pages are all empty it ends by raising TimeoutError.
C13_TimeoutAborts ==
    timeout # <<>> =>
        /\ tail_pc = "fetch" => alarm > 0
        /\ (/\ tail_pc = "done"
            /\ tail_error \notin {None, TransportError}
            /\ \A i \in 1..Len(pages) : pages[i] = <<>>)
              => tail_error = "TimeoutError"

\* C14: with no timeout configured the tail never finishes on its own,
\* whatever pages the remote returns: it ends only when its consumer closes
\* it or the remote call itself raises.
C14_NeverFinishes ==
    (timeout = <<>> /\ tail_pc = "done") => tail_error \in {None, TransportError}

----------------------------------------------------------------------------
\* Properties of SubmitJobResponse, checked under SpecResponse.

\* the reply has status metadata: a ResponseMetadata with an HTTPStatusCode
HasStatus(reply) ==
    /\ "ResponseMetadata" \in DOMAIN reply
    /\ "HTTPStatusCode" \in DOMAIN reply["ResponseMetadata"]

\* C16: for every reply, is_ok() returns true exactly when the reply's
\* status metadata carries HTTP status 200, and for a reply without status
\* metadata http_code() returns 500 and is_ok() returns false.
C16_FailClosed ==
    /\ ok # <<>> => ok[1] = ReplyIs200(reply_arg)
    /\ (http # <<>> /\ HasStatus(reply_arg)) =>
          http[1] = reply_arg["ResponseMetadata"]["HTTPStatusCode"]
    /\ ~HasStatus(reply_arg) =>
          /\ http # <<>> => http[1] = 500
          /\ ok # <<>> => ok[1] = FALSE

\* a reply whose metadata has no status code has been asked for both
C16_Witness ==
    /\ reply_arg = ReplyOf(<< ("RequestId" :> "r") >>, "j1")
    /\ http = <<500>> /\ ok = <<FALSE>>

----------------------------------------------------------------------------
\* Properties of S3Uri, checked under SpecS3.

\* the first five characters of the path are those of 's3://'
StartsWithScheme(path) ==
    /\ Len(path) >= 5
    /\ path[1] = "s" /\ path[2] = "3" /\ path[3] = ":" /\ path[4] = "/" /\ path[5] = "/"

\* C20: S3Uri(path) yields a locator holding the path exactly when the path
\* starts with 's3://'; for every other path the construction raises and
\* there is no locator.
C20_SchemePrefix ==
    (uri # <<>> \/ uri_error # None) =>
        /\ (uri # <<>>) = StartsWithScheme(path_arg)
        /\ uri # <<>> => (uri[1].path = path_arg /\ uri_error = None)
        /\ uri = <<>> => uri_error = "AssertionError"

\* a path with a space before the scheme has been refused
C20_Witness ==
    /\ path_arg = <<" ">> \o Scheme
    /\ uri = <<>> /\ uri_error = "AssertionError"

\* C21: '+', add_suffix, '/' and '//' leave the path of the locator they are
\* called on unchanged and return a new locator: for a string operand '+'
\* and add_suffix give path + operand, '/' and '//' give path + operand when
\* the path ends with '/' and path + '/' + operand otherwise; an operand
\* that is not a string makes each of them raise TypeError.
C21_JoinAppend ==
    uri_call.op # "none" =>
        /\ uri = <<[path |-> path_arg]>>
        /\ IF ~uri_call.other.str
           THEN derived = <<>> /\ derived_error = "TypeError"
           ELSE /\ derived_error = None
                /\ derived =
                     <<[path |->
                          IF uri_call.op \in {"/", "//"} /\ path_arg[Len(path_arg)] # "/"
                          THEN path_arg \o <<"/">> \o uri_call.other.chars
                          ELSE path_arg \o uri_call.other.chars]>>

\* 's3://s' // 'h' has given 's3://s/h'
C21_Witness ==
    /\ path_arg = Scheme \o <<"s">>
    /\ uri_call = [op |-> "//", other |-> [str |-> TRUE, chars |-> <<"h">>]]
    /\ derived = <<[path |-> Scheme \o <<"s", "/", "h">>]>>
    /\ uri = <<[path |-> path_arg]>>

\* the path without its first five characters, the scheme
AfterScheme(path) == [i \in 1..(Len(path) - 5) |-> path[i + 5]]

\* the positions of '/' in a string
DelimiterPositions(str) == {i \in 1..Len(str) : str[i] = "/"}

FirstDelimiter(str) ==
    CHOOSE i \in DelimiterPositions(str) : \A j \in DelimiterPositions(str) : i <= j

\* the substring between the scheme and the first '/' after it
BucketOf(path) ==
    LET rest == AfterScheme(path) IN
    IF DelimiterPositions(rest) = {} THEN rest
    ELSE SubSeq(rest, 1, FirstDelimiter(rest) - 1)

\* what follows the bucket's '/' when the bucket is not empty and that '/'
\* is the only one, the empty string otherwise
KeyOf(path) ==
    LET rest == AfterScheme(path) IN
    IF Cardinality(DelimiterPositions(rest)) = 1 /\ FirstDelimiter(rest) > 1
    THEN SubSeq(rest, FirstDelimiter(rest) + 1, Len(rest))
    ELSE <<>>

\* C22: for every valid S3Uri, bucket is the substring between the scheme
\* and the first '/', and key is the substring after the bucket's '/' when
\* exactly one segment follows the bucket; key is the empty string when
\* there is no bucket, no segment, an empty segment or more than one.
C22_BucketKey ==
    /\ bucket_out # <<>> => bucket_out[1] = BucketOf(path_arg)
    /\ key_out # <<>> => key_out[1] = KeyOf(path_arg)

\* 's3://s/h/', with a second delimiter after its segment, has given the
\* bucket 's' and the key ''
C22_Witness ==
    /\ path_arg = Scheme \o <<"s", "/", "h", "/">>
    /\ bucket_out = << <<"s">> >>
    /\ key_out = << <<>> >>

\* C23: object_exists() asks for the object named by the locator's bucket
\* and key; it returns true when the object is there, returns false only
\* when the remote answers not found (404), and raises every other failure
\* of the remote instead of returning false.
C23_ExistenceCheck ==
    head.outcome.kind # "none" =>
        /\ head.bucket = BucketOf(path_arg) /\ head.key = KeyOf(path_arg)
        /\ head.outcome.kind = "loaded" => (exists_out = <<TRUE>> /\ exists_error = None)
        /\ exists_out = <<FALSE>> =>
              (head.outcome.kind = "ClientError" /\ head.outcome.code = "404")
        /\ (head.outcome.kind # "loaded" /\ head.outcome.code # "404") =>
              (exists_out = <<>> /\ exists_error = head.outcome.kind)

\* a refusal of the remote (403) has been raised, not returned as false
C23_Witness ==
    /\ head.outcome = [kind |-> "ClientError", code |-> "403"]
    /\ exists_out = <<>> /\ exists_error = "ClientError"

\* ---------------------------------------------------------------------
\* wait_until (util.py)
\* ---------------------------------------------------------------------

MaxPolls == 3

MaxCallRate == 2

\* what statement() may return, written as Python writes it
StatementValues == {"False", "True", "None", "0", "1"}

\* the values Python's `not` takes for false
Falsy == {"False", "None", "0"}

\* bool(value)
Bool(value) == value \notin Falsy

\* call_rate: None, or a number of seconds
CallRates == {<<>>} \cup {<<n>> : n \in 1..MaxCallRate}

\* time.sleep(call_rate) when call_rate is not None
SleepFor(rate) == IF rate # <<>> THEN rate[1] ELSE 0

\* wait_until(statement, call_rate) is called: it keeps its arguments and
\* enters its loop
wait_until(rate) ==
    /\ wait_pc = "none"
    /\ wait_pc' = "polling"
    /\ call_rate' = rate
    /\ UNCHANGED <<answers, slept>>
    /\ UNCHANGED <<cliVars, processVars, responseVars, uriVars, jobVars, tailVars>>

\* a loop that reads a truthy result as one more falsy one
Poll_ignores_result(value) ==
    /\ wait_pc = "polling"
    /\ Len(answers) < MaxPolls
    /\ answers' = Append(answers, value)
    /\ wait_pc' = "polling" /\ slept' = slept + SleepFor(call_rate)
    /\ UNCHANGED call_rate
    /\ UNCHANGED <<cliVars, processVars, responseVars, uriVars, jobVars, tailVars>>

\* one turn of `while not self.statement()`: statement is called and
\* returns value; a truthy value ends the loop and the constructor returns,
\* a falsy one is followed by the sleep
Poll(value) ==
    /\ wait_pc = "polling"
    /\ Len(answers) < MaxPolls
    /\ answers' = Append(answers, value)
    /\ IF Bool(value)
       THEN wait_pc' = "returned" /\ slept' = slept
       ELSE wait_pc' = "polling" /\ slept' = slept + SleepFor(call_rate)
    /\ UNCHANGED call_rate
    /\ UNCHANGED <<cliVars, processVars, responseVars, uriVars, jobVars, tailVars>>

\* statement raises: nothing catches it, the call ends with its exception
PollRaises ==
    /\ wait_pc = "polling"
    /\ Len(answers) < MaxPolls
    /\ wait_pc' = "raised"
    /\ UNCHANGED <<call_rate, answers, slept>>
    /\ UNCHANGED <<cliVars, processVars, responseVars, uriVars, jobVars, tailVars>>

NextWait ==
    \/ \E rate \in CallRates : wait_until(rate)
    \/ \E value \in StatementValues : Poll(value)
    \/ PollRaises

SpecWait == Init /\ [][NextWait]_vars

\* C25: wait_until returns exactly when statement has returned a truthy
\* value: every earlier result was falsy and the truthy one is the last
\* call made; while statement has only returned falsy values the call has
\* not returned; and it has slept call_rate after each falsy result when
\* call_rate was given, and not at all otherwise.
C25_WaitUntil ==
    /\ wait_pc = "returned" <=> (\E i \in 1..Len(answers) : Bool(answers[i]))
    /\ \A i \in 1..Len(answers) : Bool(answers[i]) => i = Len(answers)
    /\ LET falsy == {i \in 1..Len(answers) : ~Bool(answers[i])}
       IN  slept = IF call_rate = <<>> THEN 0 ELSE call_rate[1] * Cardinality(falsy)

\* two falsy results (None, 0), each followed by a sleep of 2 seconds, then
\* a truthy one, on which the call returned
C25_Witness ==
    /\ wait_pc = "returned"
    /\ call_rate = <<2>>
    /\ answers = <<"None", "0", "1">>
    /\ slept = 4

\* ---------------------------------------------------------------------
\* awscli (aws/__init__.py)
\* ---------------------------------------------------------------------

MaxEnvNames == 3

\* names of environment variables; awscli itself sets LC_CTYPE
EnvNames == {<<"LC_CTYPE", "HOME", "AWS_PROFILE", "TZ">>[i] : i \in 1..MaxEnvNames}

EnvValues == {"C", "en_US.UTF"}

\* the environments a process may start with
Environments == UNION {[names -> EnvValues] : names \in SUBSET EnvNames}

\* dict(os.environ), os.environ.copy()
Copy(env) == [n \in DOMAIN env |-> env[n]]

\* env.update(other): other's entries win
Update(env, other) ==
    [n \in DOMAIN env \cup DOMAIN other |-> IF n \in DOMAIN other THEN other[n] ELSE env[n]]

\* env.clear()
Clear(env) == [n \in {} |-> "C"]

\* del env[name] for each of names
Unset(env, names) == [n \in DOMAIN env \ names |-> env[n]]

\* what the driver does to the process while it runs: the variables it
\* sets and removes, and whether it rebinds sys.stdout and sys.stderr
DriverEffects ==
    [sets    : {Clear(<<>>), [n \in {"HOME"} |-> "en_US.UTF"]},
     unsets  : {{}, {"LC_CTYPE"}},
     rebinds : BOOLEAN]

\* how driver.main(cli_args) ends: with an exit code, or by raising
DriverEnds ==
    {[kind |-> "exit", code |-> c] : c \in {0, 1, 255}} \cup
    {[kind |-> "raises", code |-> 0]}

\* how the try block ends: an exception of the driver passes through;
\* getvalue() is not found on a stream the driver has bound in place of
\* the StringIO buffers; a non-zero exit code raises RuntimeError
TryOutcome(end, effect) ==
    IF end.kind = "raises" THEN [outcome |-> "raise", error |-> "Exception"]
    ELSE IF effect.rebinds THEN [outcome |-> "raise", error |-> "AttributeError"]
    ELSE IF end.code # 0 THEN [outcome |-> "raise", error |-> "RuntimeError"]
    ELSE [outcome |-> "return", error |-> None]

\* a finally block that puts the saved variables back without clearing
awscli_no_clear(parses, end, effect) ==
    /\ cli_result.outcome = "none"
    /\ IF ~parses
       THEN /\ cli_result' = [outcome |-> "raise", error |-> "ValueError"]
            /\ UNCHANGED <<environ, sys_stdout, sys_stderr>>
       ELSE LET current_environment == Copy(environ)
                env == Update(Copy(environ), [n \in {"LC_CTYPE"} |-> "en_US.UTF"])
                patched == Update(environ, env)
                driven == Unset(Update(patched, effect.sets), effect.unsets)
            IN  /\ cli_result' = TryOutcome(end, effect)
                /\ sys_stdout' = sys_stdout
                /\ sys_stderr' = sys_stderr
                /\ environ' = Update(driven, current_environment)
    /\ UNCHANGED <<waitVars, processVars, responseVars, uriVars, jobVars, tailVars>>

\* awscli(command): the command is split (line 30; a command that does
\* not parse raises ValueError before anything is touched), the
\* environment and the streams are saved, LC_CTYPE is set, the streams are
\* replaced by buffers, the driver runs, and the finally block restores
\* the streams, clears the environment and puts the saved variables back
awscli(parses, end, effect) ==
    /\ cli_result.outcome = "none"
    /\ IF ~parses
       THEN /\ cli_result' = [outcome |-> "raise", error |-> "ValueError"]
            /\ UNCHANGED <<environ, sys_stdout, sys_stderr>>
       ELSE LET current_environment == Copy(environ)
                current_stdout == sys_stdout
                current_stderr == sys_stderr
                env == Update(Copy(environ), [n \in {"LC_CTYPE"} |-> "en_US.UTF"])
                patched == Update(environ, env)
                driven == Unset(Update(patched, effect.sets), effect.unsets)
            IN  /\ cli_result' = TryOutcome(end, effect)
                /\ sys_stdout' = current_stdout
                /\ sys_stderr' = current_stderr
                /\ environ' = Update(Clear(driven), current_environment)
    /\ UNCHANGED <<waitVars, processVars, responseVars, uriVars, jobVars, tailVars>>

\* a process with some environment, before its awscli call
InitEnvironments ==
    /\ InitHandle /\ InitTail /\ InitResponse(<<>>) /\ InitUri(<<>>)
    /\ InitWait /\ InitProcess
    /\ \E env \in Environments : InitCli(env)

NextCli ==
    \E parses \in BOOLEAN, end \in DriverEnds, effect \in DriverEffects :
        awscli(parses, end, effect)

SpecCli == InitEnvironments /\ [][NextCli]_vars

\* C29: an awscli call, whether it returns or raises (the driver exits
\* non-zero, the driver throws, the command does not parse), leaves the
\* environment variables, sys.stdout and sys.stderr as they were before
\* the call.
C29_RestoresGlobals ==
    [][cli_result' # cli_result =>
         /\ environ' = environ
         /\ sys_stdout' = sys_stdout
         /\ sys_stderr' = sys_stderr]_vars

\* a call has raised for a non-zero exit in a process that has no LC_CTYPE,
\* which the call had set
C29_Witness ==
    /\ cli_result = [outcome |-> "raise", error |-> "RuntimeError"]
    /\ "LC_CTYPE" \notin DOMAIN environ
    /\ "HOME" \in DOMAIN environ
    /\ sys_stdout = "stdout" /\ sys_stderr = "stderr"

\* ---------------------------------------------------------------------
\* Two generators of yield_log_events in one process (logs.py, util.py).
\* The alarm of timeout_after is the one SIGALRM timer of the process.  The
\* consumer is one thread: while it is inside next() of a generator (that
\* generator is at its fetch) it does nothing else.
\* ---------------------------------------------------------------------

\* the consumer is inside next() of some generator
Busy == \E j \in TailIds : gens[j].pc = "fetch"

\* yield_log_events(..., timeout=to) makes generator i; its body has not
\* started
TailNew(i, to) ==
    /\ ~Busy
    /\ gens[i].pc = "none"
    /\ gens' = [gens EXCEPT ![i] = [pc |-> "new", timeout |-> to, error |-> None]]
    /\ UNCHANGED sigalrm
    /\ UNCHANGED <<waitVars, cliVars, responseVars, uriVars, jobVars, tailVars>>

\* the first next() of generator i: its body starts and enters
\* timeout_after, which sets the process's alarm
TailStart(i) ==
    /\ ~Busy
    /\ gens[i].pc = "new"
    /\ gens' = [gens EXCEPT ![i].pc = "fetch"]
    /\ sigalrm' = Enter(gens[i].timeout, sigalrm)
    /\ UNCHANGED <<waitVars, cliVars, responseVars, uriVars, jobVars, tailVars>>

\* an exception leaves the with block of generator i and ends it;
\* __exit__ clears the process's alarm when i has a timeout
TailDies(i, e) ==
    /\ gens' = [gens EXCEPT ![i].pc = "done", ![i].error = e]
    /\ sigalrm' = Exit(gens[i].timeout, sigalrm)

\* the remote call of generator i ends: it raises, or get_log_events wraps
\* its reply
TailFetch(i, outcome) ==
    /\ gens[i].pc = "fetch"
    /\ IF outcome.raises
       THEN TailDies(i, TransportError)
       ELSE LET got == get_log_events(outcome.reply) IN
            IF got.raises
            THEN TailDies(i, got.error)
            ELSE /\ gens' = [gens EXCEPT ![i].pc = "loop"]
                 /\ UNCHANGED sigalrm
    /\ UNCHANGED <<waitVars, cliVars, responseVars, uriVars, jobVars, tailVars>>

\* a second passes while the remote call of generator i is pending; when
\* the alarm falls due the handler raises TimeoutError where the thread
\* is, inside generator i
TailElapse(i) ==
    /\ gens[i].pc = "fetch"
    /\ sigalrm > 0
    /\ IF sigalrm = 1
       THEN TailDies(i, "TimeoutError")
       ELSE /\ sigalrm' = sigalrm - 1
            /\ UNCHANGED gens
    /\ UNCHANGED <<waitVars, cliVars, responseVars, uriVars, jobVars, tailVars>>

\* the consumer closes generator i before its first next(): nothing of its
\* body has run
TailClose(i) ==
    /\ ~Busy
    /\ gens[i].pc = "new"
    /\ gens' = [gens EXCEPT ![i].pc = "done"]
    /\ UNCHANGED sigalrm
    /\ UNCHANGED <<waitVars, cliVars, responseVars, uriVars, jobVars, tailVars>>

\* get_log_events raises on every reply, so no generator gets to a yield:
\* a generator's with block is entered and left within one next(), and
\* the steps after the fetch are left out as in NextLog.
NextTails ==
    \E i \in TailIds :
        \/ \E to \in Timeouts : TailNew(i, to)
        \/ TailStart(i)
        \/ \E o \in LogOutcomes : TailFetch(i, o)
        \/ TailElapse(i)
        \/ TailClose(i)

SpecTails == Init /\ [][NextTails]_vars

\* C30: of two tails with configured timeouts in one process, each runs
\* with its own budget pending while it is fetching, and each that ends on
\* its own (not closed by its consumer, not by an error of the remote call)
\* ends with TimeoutError, whatever the other has done.
C30_IndependentTimeouts ==
    \A i \in TailIds :
        gens[i].timeout # <<>> =>
            /\ gens[i].pc = "fetch" => (sigalrm > 0 /\ sigalrm <= gens[i].timeout[1])
            /\ (gens[i].pc = "done" /\ gens[i].error \notin {None, TransportError})
                  => gens[i].error = "TimeoutError"

====
